---------------------------- MODULE Spec2Model ----------------------------
(***************************************************************************)
(* LatticePlanner (modules/planning/planner/lattice/lattice_planner.cc).   *)
(*                                                                         *)
(* Plan() is modelled as a state machine: PlanBegin is steps 1-6 (lines    *)
(* 57-163), each iteration of the selection loop (lines 164-277) is one    *)
(* action per way the iteration can end, and ReturnOK / ReturnError are    *)
(* the two branches of lines 279-306.  CombineTrajectory (lines 309-374)   *)
(* is an operator for Plan, and is also run on its own, one action per     *)
(* pass of its loop (SpecCombine).                                         *)
(*                                                                         *)
(* Arithmetic.  The code steps t_param in doubles.  Times are modelled in  *)
(* exact integer ticks.  The one place where rounding changes the control  *)
(* flow is the guard t_param < planned_trajectory_time when the exact sum  *)
(* k * trajectory_time_resolution equals planned_trajectory_time: the      *)
(* accumulated double may lie just below it (80 additions of 0.1 give      *)
(* 7.999999999999988 < 8.0).  fp_round_down says which way the build's     *)
(* constants round.                                                        *)
(***************************************************************************)
EXTENDS Integers, Sequences, FiniteSets

\* ------------------------------------------------------------------ bounds
MaxLon == 2
MaxLat == 2
\* largest cross-product the evaluator is given: nlon * nlat <= MaxPairs
MaxPairs == 4
MaxRefLen == 2
MaxCycles == 2
\* largest cross-product of a cycle when Plan is called cycle after cycle
CyclePairs == 2
\* arc-length between two samples of the discretized reference line
RefSpacing == 10
\* the non-zero relative_time of a planning init point
InitTime == 3
\* the non-zero PriorityCost of a reference line
Priority == 5
\* the initial lateral offset init_d[0]
LatOffset == 4
\* largest start speed and deceleration of a longitudinal curve given to
\* CombineTrajectory on its own
MaxSpeed == 3
MaxDec == 1

\* ------------------------------------------------- constants of the program
\* lattice_params.h gives them in seconds; here in ticks: a horizon of 12 steps
\* of 2 ticks, longer than the 10 points of line 263.
planned_trajectory_time == 24
trajectory_time_resolution == 2
\* for (uint i = 0; i < 10; ++i)  (line 263)
NumDebugPoints == 10

VARIABLES
  pc,                                \* where Plan is
  fp_round_down,                     \* how the build's time constants round
  num_planning_cycles,               \* static, line 57
  num_planning_succeeded_cycles,     \* static, line 58
  reference_line,                    \* discretized_reference_line: s of each PathPoint
  planning_init_point,               \* [relative_time]
  init_s,                            \* init_s[0]
  obstacles,                         \* frame->obstacles()
  planning_target,                   \* PlanningTarget: stop (0) or cruise (1)
  lon_bundle, lat_bundle,            \* lon_trajectory1d_bundle, lat_trajectory1d_bundle
  ranked,                            \* the evaluator's sequence as constructed
  queue,                             \* the evaluator's remaining sequence
  popped,                            \* the pairs popped so far, in order
  constraint_failure_count,
  combined_constraint_failure_count,
  collision_failure_count,
  num_lattice_traj,
  reference_line_info,               \* the result holder; debug is mutable_debug()
  set_trajectory_calls,              \* calls of SetTrajectory in this Plan call
  selected,                          \* the pair of the iteration that recorded
  ub,                                \* undefined behaviour the call ran into
  log,                               \* what AINFO wrote: components, counters
  calls,                             \* the checks the last iteration called, in order
  combine_t_param,                   \* CombineTrajectory run step by step: t_param
  combined_trajectory_points,        \* and the points appended so far
  tuning,                            \* what the auto tuning of lines 207-233 did
  status                             \* Plan's return value

vars == <<pc, fp_round_down, num_planning_cycles, num_planning_succeeded_cycles,
          reference_line, planning_init_point, init_s, obstacles, planning_target,
          lon_bundle, lat_bundle, ranked, queue, popped,
          constraint_failure_count, combined_constraint_failure_count,
          collision_failure_count, num_lattice_traj, reference_line_info,
          set_trajectory_calls, selected, ub, log, calls, tuning, status,
          combine_t_param, combined_trajectory_points>>

\* ----------------------------------------------------------------- helpers
Abs(x) == IF x < 0 THEN -x ELSE x

NoPair == [lon |-> 0, lat |-> 0, cost |-> 0, components |-> <<>>]
NoStatus == [code |-> "NONE", msg |-> ""]
StatusOK == [code |-> "OK", msg |-> ""]
StatusPlanningError == [code |-> "PLANNING_ERROR", msg |-> "No feasible trajectories"]
NoLog == [components |-> <<>>, counters |-> <<>>]
NoUB == [null_deref |-> FALSE, out_of_range |-> FALSE]
NoTuning == [tuning_success |-> TRUE, scored |-> FALSE, message |-> ""]

\* ToDiscretizedReferenceLine: n PathPoints, arc-length increasing from 0.
ToDiscretizedReferenceLine(n) == [k \in 1..n |-> (k - 1) * RefSpacing]

\* reference_line.back().s()
RefBackS(line) == line[Len(line)]

\* ReferenceLineMatcher::MatchToReferenceLine(reference_line, s): the point of
\* the line at arc-length s, clamped at the ends of the line.
MatchToReferenceLine(line, s) ==
  IF s < line[1] THEN line[1]
  ELSE IF s > RefBackS(line) THEN RefBackS(line)
  ELSE s

----------------------------------------------------------------------------
\* Curve1d.  A longitudinal curve [s0, v, dec] starts at s0 with the speed v
\* and the constant deceleration 2 * dec (the bundles of Plan have dec = 0);
\* a lateral curve [d0, rate] decays from the
\* offset d0 to the lane centre.

LonEvaluate(lon, order, t) ==
  CASE order = 0 -> lon.s0 + lon.v * t - lon.dec * t * t
    [] order = 1 -> lon.v - 2 * lon.dec * t
    [] order = 2 -> 0 - 2 * lon.dec
    [] OTHER     -> 0

LatEvaluate(lat, order, p) ==
  CASE order = 0 -> IF lat.rate * p >= lat.d0 THEN 0 ELSE lat.d0 - lat.rate * p
    [] order = 1 -> IF lat.rate * p >= lat.d0 THEN 0 ELSE 0 - lat.rate
    [] OTHER     -> 0

\* Trajectory1dGenerator::GenerateTrajectoryBundles: a spread of end conditions.
GenerateLonBundle(s0, n) == [i \in 1..n |-> [s0 |-> s0, v |-> i - 1, dec |-> 0]]
GenerateLatBundle(d0, m) == [j \in 1..m |-> [d0 |-> d0, rate |-> j]]

----------------------------------------------------------------------------
\* TrajectoryEvaluator: the pairs of the cross product, ranked by ascending
\* cost, pairs of equal cost in the order they were generated.

CostComponents(target, lon, lat, obs) ==
  << Abs(lon.v - target),      \* travel
     lon.v,                    \* jerk
     Len(obs),                 \* obstacle
     lat.rate - 1 >>           \* lateral

SumSeq(c) == c[1] + c[2] + c[3] + c[4]

MakePair(target, lons, lats, obs, i, j) ==
  [lon |-> i, lat |-> j,
   cost |-> SumSeq(CostComponents(target, lons[i], lats[j], obs)),
   components |-> CostComponents(target, lons[i], lats[j], obs)]

\* the pairs in generation order: for each lon, for each lat
GeneratedPairs(target, lons, lats, obs) ==
  [k \in 1..(Len(lons) * Len(lats)) |->
     MakePair(target, lons, lats, obs,
              ((k - 1) \div Len(lats)) + 1, ((k - 1) % Len(lats)) + 1)]

\* p goes before the pairs of the same cost
RECURSIVE InsertByCostUnstable(_, _)
InsertByCostUnstable(q, p) ==
  IF q = <<>> THEN <<p>>
  ELSE IF Head(q).cost < p.cost
         THEN <<Head(q)>> \o InsertByCostUnstable(Tail(q), p)
  ELSE <<p>> \o q

\* p goes behind every pair whose cost is not larger
RECURSIVE InsertByCost(_, _)
InsertByCost(q, p) ==
  IF q = <<>> THEN <<p>>
  ELSE IF Head(q).cost <= p.cost THEN <<Head(q)>> \o InsertByCost(Tail(q), p)
  ELSE <<p>> \o q

RECURSIVE RankPairs(_, _)
RankPairs(q, pairs) ==
  IF pairs = <<>> THEN q
  ELSE RankPairs(InsertByCost(q, Head(pairs)), Tail(pairs))

TrajectoryEvaluator(target, lons, lats, obs) ==
  RankPairs(<<>>, GeneratedPairs(target, lons, lats, obs))

has_more_trajectory_pairs(q) == q # <<>>
top_trajectory_pair_cost(q) == Head(q).cost
top_trajectory_pair_component_cost(q) == Head(q).components
next_top_trajectory_pair(q) == Head(q)

----------------------------------------------------------------------------
\* CombineTrajectory, lines 309-374.

\* line 320: t_param < planned_trajectory_time, on the accumulated double
LoopGuard(t_param) ==
  \/ t_param < planned_trajectory_time
  \/ t_param = planned_trajectory_time /\ fp_round_down

\* variant: the lateral curve is evaluated at s
TrajectoryPointLatAtS(line, lon, lat, init_relative_time, t_param) ==
  LET s       == LonEvaluate(lon, 0, t_param)
  IN  [rs            |-> MatchToReferenceLine(line, s),
       d             |-> LatEvaluate(lat, 0, s),
       v             |-> LonEvaluate(lon, 1, t_param),
       a             |-> LonEvaluate(lon, 2, t_param),
       relative_time |-> t_param + init_relative_time]

\* the relative time of the planning init point is left out
TrajectoryPointNoInitTime(line, lon, lat, init_relative_time, t_param) ==
  LET s       == LonEvaluate(lon, 0, t_param)
      s0      == LonEvaluate(lon, 0, 0)
      s_param == s - s0
  IN  [rs            |-> MatchToReferenceLine(line, s),
       d             |-> LatEvaluate(lat, 0, s_param),
       v             |-> LonEvaluate(lon, 1, t_param),
       a             |-> LonEvaluate(lon, 2, t_param),
       relative_time |-> t_param]

\* lines 323-367: the TrajectoryPoint of one step.  frenet_to_cartesian is kept
\* as the tuple of its arguments.
TrajectoryPointAt(line, lon, lat, init_relative_time, t_param) ==
  LET s       == LonEvaluate(lon, 0, t_param)
      s0      == LonEvaluate(lon, 0, 0)
      s_param == s - s0
  IN  [rs            |-> MatchToReferenceLine(line, s),
       d             |-> LatEvaluate(lat, 0, s_param),
       v             |-> LonEvaluate(lon, 1, t_param),
       a             |-> LonEvaluate(lon, 2, t_param),
       relative_time |-> t_param + init_relative_time]

RECURSIVE CombineFrom(_, _, _, _, _)
CombineFrom(line, lon, lat, init_relative_time, t_param) ==
  IF ~LoopGuard(t_param) THEN <<>>
  ELSE IF LonEvaluate(lon, 0, t_param) > RefBackS(line) THEN <<>>
  ELSE <<TrajectoryPointAt(line, lon, lat, init_relative_time, t_param)>>
       \o CombineFrom(line, lon, lat, init_relative_time,
                      t_param + trajectory_time_resolution)

CombineTrajectory(line, lon, lat, init_relative_time) ==
  CombineFrom(line, lon, lat, init_relative_time, 0)

----------------------------------------------------------------------------
Init ==
  /\ pc = "idle"
  /\ fp_round_down \in BOOLEAN
  /\ num_planning_cycles = 0
  /\ num_planning_succeeded_cycles = 0
  /\ reference_line = <<>>
  /\ planning_init_point = [relative_time |-> 0]
  /\ init_s = 0
  /\ obstacles = <<>>
  /\ planning_target = 0
  /\ lon_bundle = <<>>
  /\ lat_bundle = <<>>
  /\ ranked = <<>>
  /\ queue = <<>>
  /\ popped = <<>>
  /\ constraint_failure_count = 0
  /\ combined_constraint_failure_count = 0
  /\ collision_failure_count = 0
  /\ num_lattice_traj = 0
  /\ reference_line_info =
       [trajectory |-> <<>>, cost |-> 0, drivable |-> FALSE, priority_cost |-> 0,
        debug |-> <<>>]
  /\ set_trajectory_calls = 0
  /\ selected = NoPair
  /\ ub = NoUB
  /\ log = NoLog
  /\ tuning = NoTuning
  /\ calls = <<>>
  /\ combine_t_param = 0
  /\ combined_trajectory_points = <<>>
  /\ status = NoStatus

\* Lines 57-163: a call of Plan with a fresh frame and reference_line_info.
PlanBegin ==
  /\ pc = "idle"
  /\ num_planning_cycles < MaxCycles
  /\ \E n \in 1..MaxRefLen, at_end \in BOOLEAN, rt \in {0, InitTime},
        prio \in {0, Priority}, obs \in {<<>>, <<"obstacle">>},
        target \in {0, 1}, nlon \in 0..MaxLon, nlat \in 0..MaxLat :
       /\ nlon * nlat <= MaxPairs
       /\ reference_line' = ToDiscretizedReferenceLine(n)
       \* lines 75-82: the matched point lies on the line, init_s[0] is its s
       /\ init_s' = ToDiscretizedReferenceLine(n)[IF at_end THEN n ELSE 1]
       /\ planning_init_point' = [relative_time |-> rt]
       /\ obstacles' = obs
       /\ planning_target' = target
       /\ lon_bundle' = GenerateLonBundle(init_s', nlon)
       /\ lat_bundle' = GenerateLatBundle(LatOffset, nlat)
       /\ ranked' = TrajectoryEvaluator(target, lon_bundle', lat_bundle', obs)
       /\ queue' = ranked'
       /\ reference_line_info' =
            [trajectory |-> <<>>, cost |-> 0, drivable |-> FALSE,
             priority_cost |-> prio, debug |-> <<>>]
  /\ num_planning_cycles' = num_planning_cycles + 1
  /\ popped' = <<>>
  /\ constraint_failure_count' = 0
  /\ combined_constraint_failure_count' = 0
  /\ collision_failure_count' = 0
  /\ num_lattice_traj' = 0
  /\ set_trajectory_calls' = 0
  /\ selected' = NoPair
  /\ ub' = NoUB
  /\ log' = NoLog
  /\ tuning' = NoTuning
  /\ calls' = <<>>
  /\ status' = NoStatus
  /\ pc' = "loop"
  /\ UNCHANGED <<fp_round_down, combine_t_param,
                 combined_trajectory_points, num_planning_succeeded_cycles>>

\* what an iteration that rejects its pair leaves alone
RejectFrame ==
  UNCHANGED <<pc, fp_round_down, combine_t_param,
              combined_trajectory_points, num_planning_cycles, num_planning_succeeded_cycles,
              reference_line, planning_init_point, init_s, obstacles,
              planning_target, lon_bundle, lat_bundle, ranked, num_lattice_traj,
              reference_line_info, set_trajectory_calls, selected, ub, log,
              tuning, status>>

\* variant: the collision check is made before the check of the combined
\* trajectory
FilterCallsCollisionFirst(valid_pair, valid_trajectory, in_collision) ==
  <<[f |-> "IsValidTrajectoryPair", passed |-> valid_pair]>> \o
  (IF ~valid_pair THEN <<>>
   ELSE <<[f |-> "CombineTrajectory", passed |-> TRUE],
          [f |-> "InCollision", passed |-> ~in_collision]>> \o
        (IF in_collision THEN <<>>
         ELSE <<[f |-> "IsValidTrajectory", passed |-> valid_trajectory]>>))

\* lines 174-196: the calls one iteration makes on the popped pair, given what
\* each check answers; a failing check ends the iteration (continue)
FilterCalls(valid_pair, valid_trajectory, in_collision) ==
  <<[f |-> "IsValidTrajectoryPair", passed |-> valid_pair]>> \o
  (IF ~valid_pair THEN <<>>
   ELSE <<[f |-> "CombineTrajectory", passed |-> TRUE],
          [f |-> "IsValidTrajectory", passed |-> valid_trajectory]>> \o
        (IF ~valid_trajectory THEN <<>>
         ELSE <<[f |-> "InCollision", passed |-> ~in_collision]>>))

\* variant: the iteration takes the pair at the bottom of the evaluator
IterationReadBottom(q) ==
  [lon        |-> q[Len(q)].lon,
   lat        |-> q[Len(q)].lat,
   cost       |-> q[Len(q)].cost,
   components |-> q[Len(q)].components]

\* the cost and the components are read after the pop, from the next pair
IterationReadAfterPop(q) ==
  LET top == IF Tail(q) # <<>> THEN Tail(q) ELSE q
  IN  [lon        |-> next_top_trajectory_pair(q).lon,
       lat        |-> next_top_trajectory_pair(q).lat,
       cost       |-> top_trajectory_pair_cost(top),
       components |-> top_trajectory_pair_component_cost(top)]

\* lines 165-171: what one iteration obtains from the evaluator, the cost and
\* the components read from the top before the pair is popped
IterationRead(q) ==
  [lon        |-> next_top_trajectory_pair(q).lon,
   lat        |-> next_top_trajectory_pair(q).lat,
   cost       |-> top_trajectory_pair_cost(q),
   components |-> top_trajectory_pair_component_cost(q)]

\* lines 164-171: the loop is entered and the top pair is popped
PopTop ==
  /\ pc = "loop"
  /\ has_more_trajectory_pairs(queue)
  /\ queue' = Tail(queue)
  /\ popped' = Append(popped, IterationRead(queue))

\* the rejecting iteration takes a second pair off the evaluator
RejectPairPopsTwice ==
  /\ pc = "loop"
  /\ has_more_trajectory_pairs(queue)
  /\ queue' = IF Len(queue) >= 2 THEN Tail(Tail(queue)) ELSE Tail(queue)
  /\ popped' = Append(popped, IterationRead(queue))
  /\ constraint_failure_count' = constraint_failure_count + 1
  /\ calls' = FilterCalls(FALSE, FALSE, FALSE)
  /\ UNCHANGED <<combined_constraint_failure_count, collision_failure_count>>
  /\ RejectFrame

\* lines 174-178: IsValidTrajectoryPair fails
RejectPair ==
  /\ PopTop
  /\ constraint_failure_count' = constraint_failure_count + 1
  /\ calls' = FilterCalls(FALSE, FALSE, FALSE)
  /\ UNCHANGED <<combined_constraint_failure_count, collision_failure_count>>
  /\ RejectFrame

\* lines 181-190: the pair is valid, the combined trajectory is not
RejectCombined ==
  /\ PopTop
  /\ combined_constraint_failure_count' = combined_constraint_failure_count + 1
  /\ calls' = FilterCalls(TRUE, FALSE, FALSE)
  /\ UNCHANGED <<constraint_failure_count, collision_failure_count>>
  /\ RejectFrame

\* variant: a collision is counted as a failure of the combined trajectory
RejectCollisionCountedAsConstraint ==
  /\ PopTop
  /\ obstacles # <<>>
  /\ combined_constraint_failure_count' = combined_constraint_failure_count + 1
  /\ calls' = FilterCalls(TRUE, TRUE, TRUE)
  /\ UNCHANGED <<constraint_failure_count, collision_failure_count>>
  /\ RejectFrame

\* lines 193-196: the combined trajectory collides with an obstacle
RejectCollision ==
  /\ PopTop
  /\ obstacles # <<>>
  /\ collision_failure_count' = collision_failure_count + 1
  /\ calls' = FilterCalls(TRUE, TRUE, TRUE)
  /\ UNCHANGED <<constraint_failure_count, combined_constraint_failure_count>>
  /\ RejectFrame

\* the priority cost of the reference line is left out
SelectedCostNoPriority(priority_cost, trajectory_pair_cost) ==
  trajectory_pair_cost

\* lines 203-204
SelectedCost(priority_cost, trajectory_pair_cost) ==
  priority_cost + trajectory_pair_cost

\* LatticePlanner::MapFutureTrajectoryToSL, lines 389-395
MapFutureTrajectoryToSL == FALSE

\* lines 207-233: tuning_success, whether evaluate_per_lonlat_trajectory was
\* called on the evaluator, and the message written to the log
AutoTuning(has_localization, enable_auto_tuning) ==
  IF ~has_localization
    THEN [tuning_success |-> FALSE, scored |-> FALSE,
          message |-> "Auto tuning failed since no localization avaiable"]
  ELSE IF enable_auto_tuning
    THEN [tuning_success |-> MapFutureTrajectoryToSL, scored |-> TRUE,
          message |-> IF MapFutureTrajectoryToSL THEN ""
                      ELSE "Auto tuning failed since no mapping from future trajectory to lon-lat"]
  ELSE [tuning_success |-> TRUE, scored |-> FALSE, message |-> ""]

\* TrajectoryEvaluator::evaluate_per_lonlat_trajectory scores a pair that is
\* not of the bundles; the remaining sequence is what it was.
evaluate_per_lonlat_trajectory(q) == q

\* variant: the drivable flag follows the outcome of the auto tuning
DrivableIfTuned(tuning_success) == tuning_success

\* lines 205-233: SetDrivable(true) is called before the auto tuning, which
\* does not touch reference_line_info
DrivableAfterTuning(tuning_success) == TRUE

\* line 240: the dynamic cast of the pair's longitudinal curve yields null and
\* line 244 reads through it; lines 263-265: with debug logging on, indexes
\* 0..9 of the trajectory's points are read whatever its length.
NullDeref(is_lattice) == ~is_lattice
OutOfRange(debug_on, trajectory) == debug_on /\ Len(trajectory) < NumDebugPoints

\* the iteration that recorded a trajectory goes on with the loop
AfterSelectNoBreak(at) == IF at = "" THEN "loop" ELSE "crashed"

\* line 267: the break, when the iteration gets there
AfterSelect(at) == IF at = "" THEN "after_loop" ELSE "crashed"

\* lines 198-267: the pair passed the three filters.  at is "" when the
\* iteration reaches the break, or the place where undefined behaviour ended
\* the process.
SelectEffects(is_lattice, debug_on, at) ==
  \E has_localization \in BOOLEAN, enable_auto_tuning \in BOOLEAN :
  LET trajectory_pair == IterationRead(queue)
      auto_tuning == AutoTuning(has_localization, enable_auto_tuning)
      combined_trajectory ==
        CombineTrajectory(reference_line, lon_bundle[trajectory_pair.lon],
                          lat_bundle[trajectory_pair.lat],
                          planning_init_point.relative_time)
  IN  /\ pc = "loop"
      /\ has_more_trajectory_pairs(queue)
      /\ popped' = Append(popped, trajectory_pair)
      /\ queue' = IF auto_tuning.scored
                    THEN evaluate_per_lonlat_trajectory(Tail(queue))
                    ELSE Tail(queue)
      /\ calls' = FilterCalls(TRUE, TRUE, FALSE)
      /\ tuning' = auto_tuning
      /\ selected' = trajectory_pair
      /\ num_lattice_traj' = num_lattice_traj + 1
      /\ set_trajectory_calls' = set_trajectory_calls + 1
      /\ reference_line_info' =
           [reference_line_info EXCEPT
              !.trajectory = combined_trajectory,
              !.cost = SelectedCost(reference_line_info.priority_cost,
                                    trajectory_pair.cost),
              !.drivable = DrivableAfterTuning(auto_tuning.tuning_success)]
      /\ ub' = [null_deref   |-> NullDeref(is_lattice),
                out_of_range |-> /\ at # "null_deref"
                                 /\ OutOfRange(debug_on, combined_trajectory)]
      /\ log' = IF at = "null_deref" THEN log
                ELSE [log EXCEPT !.components = trajectory_pair.components]
      /\ pc' = AfterSelect(at)
      /\ UNCHANGED <<fp_round_down, combine_t_param,
                     combined_trajectory_points, num_planning_cycles,
                     num_planning_succeeded_cycles, reference_line,
                     planning_init_point, init_s, obstacles, planning_target,
                     lon_bundle, lat_bundle, ranked, constraint_failure_count,
                     combined_constraint_failure_count, collision_failure_count,
                     status>>

\* the iteration reaches the break of line 267
SelectPair ==
  \E is_lattice \in BOOLEAN, debug_on \in BOOLEAN :
     SelectEffects(is_lattice, debug_on, "")

\* the read through the null pointer of line 244 ends the process
CrashNullDeref ==
  \E debug_on \in BOOLEAN :
     /\ NullDeref(FALSE)
     /\ SelectEffects(FALSE, debug_on, "null_deref")

\* a read past the end of the points, line 264, ends the process
CrashOutOfRange ==
  \E is_lattice \in BOOLEAN :
     /\ pc = "loop"
     /\ has_more_trajectory_pairs(queue)
     /\ OutOfRange(TRUE,
                   CombineTrajectory(reference_line,
                                     lon_bundle[IterationRead(queue).lon],
                                     lat_bundle[IterationRead(queue).lat],
                                     planning_init_point.relative_time))
     /\ SelectEffects(is_lattice, TRUE, "out_of_range")

ReturnFrame ==
  UNCHANGED <<fp_round_down, combine_t_param,
              combined_trajectory_points, num_planning_cycles, reference_line,
              planning_init_point, init_s, obstacles, planning_target,
              lon_bundle, lat_bundle, ranked, queue, popped,
              constraint_failure_count, combined_constraint_failure_count,
              collision_failure_count, num_lattice_traj, set_trajectory_calls,
              selected, ub, calls, tuning>>

LoopEnded ==
  \/ pc = "after_loop"
  \/ pc = "loop" /\ ~has_more_trajectory_pairs(queue)

\* lines 285-290
LoggedCounters ==
  <<constraint_failure_count, combined_constraint_failure_count,
    collision_failure_count>>

\* lines 294-300
ReturnOK ==
  /\ LoopEnded
  /\ num_lattice_traj > 0
  /\ log' = [log EXCEPT !.counters = LoggedCounters]
  /\ num_planning_succeeded_cycles' = num_planning_succeeded_cycles + 1
  /\ reference_line_info' = [reference_line_info EXCEPT !.drivable = TRUE]
  /\ status' = StatusOK
  /\ pc' = "returned"
  /\ ReturnFrame

\* variant: the failing branch marks the holder drivable as the succeeding one
ReturnErrorMarksDrivable ==
  /\ LoopEnded
  /\ ~(num_lattice_traj > 0)
  /\ log' = [log EXCEPT !.counters = LoggedCounters]
  /\ status' = StatusPlanningError
  /\ reference_line_info' = [reference_line_info EXCEPT !.drivable = TRUE]
  /\ pc' = "returned"
  /\ UNCHANGED num_planning_succeeded_cycles
  /\ ReturnFrame

\* lines 301-306
ReturnError ==
  /\ LoopEnded
  /\ ~(num_lattice_traj > 0)
  /\ log' = [log EXCEPT !.counters = LoggedCounters]
  /\ status' = StatusPlanningError
  /\ pc' = "returned"
  /\ UNCHANGED <<num_planning_succeeded_cycles, reference_line_info>>
  /\ ReturnFrame

\* Between two cycles the caller drops the frame and the reference_line_info of
\* the finished call; Plan's locals are gone.  The statics of lines 57-58 stay.
NextCycle ==
  /\ pc = "returned"
  /\ pc' = "idle"
  /\ reference_line' = <<>>
  /\ planning_init_point' = [relative_time |-> 0]
  /\ init_s' = 0
  /\ obstacles' = <<>>
  /\ planning_target' = 0
  /\ lon_bundle' = <<>>
  /\ lat_bundle' = <<>>
  /\ ranked' = <<>>
  /\ queue' = <<>>
  /\ popped' = <<>>
  /\ constraint_failure_count' = 0
  /\ combined_constraint_failure_count' = 0
  /\ collision_failure_count' = 0
  /\ num_lattice_traj' = 0
  /\ reference_line_info' =
       [trajectory |-> <<>>, cost |-> 0, drivable |-> FALSE, priority_cost |-> 0,
        debug |-> <<>>]
  /\ set_trajectory_calls' = 0
  /\ selected' = NoPair
  /\ ub' = NoUB
  /\ log' = NoLog
  /\ tuning' = NoTuning
  /\ calls' = <<>>
  /\ status' = NoStatus
  /\ UNCHANGED <<fp_round_down, combine_t_param,
                 combined_trajectory_points, num_planning_cycles, num_planning_succeeded_cycles>>

Next ==
  \/ PlanBegin
  \/ RejectPair
  \/ RejectCombined
  \/ RejectCollision
  \/ SelectPair
  \/ CrashNullDeref
  \/ CrashOutOfRange
  \/ ReturnOK
  \/ ReturnError

\* one call of Plan
Spec == Init /\ [][Next]_vars

\* Plan called cycle after cycle.  The frames of the cycles have cross-products
\* of at most CyclePairs pairs, an init point of relative_time 0 and a
\* reference line of PriorityCost 0.
NextCycles ==
  \/ /\ PlanBegin
     /\ Len(ranked') <= CyclePairs
     /\ planning_init_point'.relative_time = 0
     /\ reference_line_info'.priority_cost = 0
  \/ RejectPair
  \/ RejectCombined
  \/ RejectCollision
  \/ SelectPair
  \/ CrashNullDeref
  \/ CrashOutOfRange
  \/ ReturnOK
  \/ ReturnError
  \/ NextCycle
SpecCycles == Init /\ [][NextCycles]_vars

----------------------------------------------------------------------------
\* CombineTrajectory on its own, one action per pass of the loop of lines
\* 320-372.  Its arguments are held in reference_line, lon_bundle[1],
\* lat_bundle[1] and planning_init_point; any curve and any start position are
\* allowed, also one beyond the end of the line.

InitCombine ==
  /\ pc = "combine"
  /\ fp_round_down \in BOOLEAN
  /\ \E n \in 1..MaxRefLen : reference_line = ToDiscretizedReferenceLine(n)
  /\ \E s0 \in {0, RefSpacing - 4, RefSpacing, RefSpacing + 1},
        v \in 0..MaxSpeed, dec \in 0..MaxDec :
        lon_bundle = <<[s0 |-> s0, v |-> v, dec |-> dec]>>
  /\ \E j \in 1..MaxLat : lat_bundle = GenerateLatBundle(LatOffset, j)
  /\ \E rt \in {0, InitTime} : planning_init_point = [relative_time |-> rt]
  /\ combine_t_param = 0
  /\ combined_trajectory_points = <<>>
  /\ num_planning_cycles = 0
  /\ num_planning_succeeded_cycles = 0
  /\ init_s = 0
  /\ obstacles = <<>>
  /\ planning_target = 0
  /\ ranked = <<>>
  /\ queue = <<>>
  /\ popped = <<>>
  /\ constraint_failure_count = 0
  /\ combined_constraint_failure_count = 0
  /\ collision_failure_count = 0
  /\ num_lattice_traj = 0
  /\ reference_line_info =
       [trajectory |-> <<>>, cost |-> 0, drivable |-> FALSE,
        priority_cost |-> 0, debug |-> <<>>]
  /\ set_trajectory_calls = 0
  /\ selected = NoPair
  /\ ub = NoUB
  /\ log = NoLog
  /\ tuning = NoTuning
  /\ calls = <<>>
  /\ status = NoStatus

\* what CombineTrajectory leaves alone: its arguments and all of Plan's state
CombineFrame ==
  UNCHANGED <<fp_round_down, num_planning_cycles, num_planning_succeeded_cycles,
              reference_line, planning_init_point, init_s, obstacles,
              planning_target, lon_bundle, lat_bundle, ranked, queue, popped,
              constraint_failure_count, combined_constraint_failure_count,
              collision_failure_count, num_lattice_traj, reference_line_info,
              set_trajectory_calls, selected, ub, log, calls, tuning, status>>

\* the position s of the longitudinal curve at t_param, line 323
CombineS(t_param) == LonEvaluate(lon_bundle[Len(lon_bundle)], 0, t_param)

\* lines 320-371: a pass that appends a point and advances t_param
CombineStep ==
  /\ pc = "combine"
  /\ LoopGuard(combine_t_param)
  /\ ~(CombineS(combine_t_param) > RefBackS(reference_line))
  /\ combined_trajectory_points' =
       Append(combined_trajectory_points,
              TrajectoryPointAt(reference_line, lon_bundle[Len(lon_bundle)],
                                lat_bundle[Len(lat_bundle)],
                                planning_init_point.relative_time,
                                combine_t_param))
  /\ combine_t_param' = combine_t_param + trajectory_time_resolution
  /\ UNCHANGED pc
  /\ CombineFrame

\* variant: a step beyond the end of the line is skipped, the loop goes on
CombineSkip ==
  /\ pc = "combine"
  /\ LoopGuard(combine_t_param)
  /\ CombineS(combine_t_param) > RefBackS(reference_line)
  /\ combine_t_param' = combine_t_param + trajectory_time_resolution
  /\ UNCHANGED <<pc, combined_trajectory_points>>
  /\ CombineFrame

\* lines 326-328: s > s_ref_max, break; the points so far are returned
CombineBreak ==
  /\ pc = "combine"
  /\ LoopGuard(combine_t_param)
  /\ CombineS(combine_t_param) > RefBackS(reference_line)
  /\ pc' = "combine_done"
  /\ UNCHANGED <<combine_t_param, combined_trajectory_points>>
  /\ CombineFrame

\* lines 320, 373: the guard fails, the points are returned
CombineReturn ==
  /\ pc = "combine"
  /\ ~LoopGuard(combine_t_param)
  /\ pc' = "combine_done"
  /\ UNCHANGED <<combine_t_param, combined_trajectory_points>>
  /\ CombineFrame

NextCombine ==
  \/ CombineStep
  \/ CombineBreak
  \/ CombineReturn

SpecCombine == InitCombine /\ [][NextCombine]_vars

----------------------------------------------------------------------------
\* The claims.

PairIds(q) == [k \in 1..Len(q) |-> <<q[k].lon, q[k].lat>>]

Rejections ==
  constraint_failure_count + combined_constraint_failure_count
    + collision_failure_count

\* the trajectory CombineTrajectory makes of pair p in this call
TrajectoryOf(p) ==
  CombineTrajectory(reference_line, lon_bundle[p.lon], lat_bundle[p.lat],
                    planning_init_point.relative_time)

\* C1: the pairs are taken in the evaluator's order; the pair whose trajectory
\* is recorded is the first popped pair that no filter rejected (every pair
\* popped before it counted as a rejection); once it is recorded the loop has
\* stopped, it stays the last pair popped, and SetTrajectory was called at
\* most once in the call.
C1_FirstAcceptableWins ==
  /\ PairIds(popped) \o PairIds(queue) = PairIds(ranked)
  /\ set_trajectory_calls <= 1
  /\ set_trajectory_calls = 0 =>
        /\ Len(popped) = Rejections
        /\ reference_line_info.trajectory = <<>>
  /\ set_trajectory_calls = 1 =>
        /\ pc # "loop"
        /\ Len(popped) = Rejections + 1
        /\ <<selected.lon, selected.lat>> = PairIds(popped)[Len(popped)]
        /\ reference_line_info.trajectory = TrajectoryOf(selected)

C1_Witness ==
  /\ pc = "returned"
  /\ set_trajectory_calls = 1
  /\ Len(popped) >= 3
  /\ queue # <<>>

\* C2: Plan returns OK if and only if a pair survived the three filters, and
\* when no pair survived the sequence is exhausted and Plan returns
\* PLANNING_ERROR "No feasible trajectories".
C2_OKIffSurvivor ==
  pc \in {"returned", "crashed"} =>
    /\ status = StatusOK <=> set_trajectory_calls >= 1
    /\ set_trajectory_calls = 0 =>
          /\ queue = <<>>
          /\ status = StatusPlanningError

\* the place of a popped pair in the order of generation
GenIndex(p) == (p.lon - 1) * Len(lat_bundle) + p.lat

\* C3: the costs read from the top before each pop are non-decreasing along
\* the pops, and pairs of equal cost come in the order of their generation.
C3_MonotonicRanking ==
  \A i, j \in 1..Len(popped) :
     i < j =>
       /\ popped[i].cost <= popped[j].cost
       /\ popped[i].cost = popped[j].cost => GenIndex(popped[i]) < GenIndex(popped[j])

C3_Witness ==
  /\ Len(popped) >= 3
  /\ popped[1].cost = popped[2].cost
  /\ popped[2].cost < popped[3].cost

\* planned_trajectory_time / trajectory_time_resolution
HorizonPoints == planned_trajectory_time \div trajectory_time_resolution

\* C4: a combined trajectory has exactly planned_trajectory_time /
\* trajectory_time_resolution points, or fewer only because s went past the
\* end of the reference line at the next step; never more; and its
\* relative_time is strictly increasing.
C4_CombinerHorizon ==
  set_trajectory_calls = 1 =>
    LET traj == reference_line_info.trajectory
        lon  == lon_bundle[selected.lon]
    IN  /\ Len(traj) <= HorizonPoints
        /\ Len(traj) < HorizonPoints =>
              LonEvaluate(lon, 0, Len(traj) * trajectory_time_resolution)
                > RefBackS(reference_line)
        /\ \A i \in 1..(Len(traj) - 1) :
              traj[i].relative_time < traj[i + 1].relative_time

\* C5: an iteration that rejects its pair leaves the evaluator's remaining
\* sequence as it was just after the pop, leaves the obstacles alone, and
\* changes nothing but one rejection counter, by one.
C5_RejectionFrame ==
  [][(pc = "loop" /\ pc' = "loop" /\ popped' # popped) =>
       /\ queue' = Tail(queue)
       /\ obstacles' = obstacles
       /\ Rejections' = Rejections + 1
       /\ constraint_failure_count' >= constraint_failure_count
       /\ combined_constraint_failure_count' >= combined_constraint_failure_count
       /\ collision_failure_count' >= collision_failure_count
       /\ UNCHANGED <<ranked, lon_bundle, lat_bundle, reference_line,
                      reference_line_info, num_lattice_traj, selected, status>>]_vars

C5_Witness ==
  /\ pc = "loop"
  /\ collision_failure_count >= 1
  /\ constraint_failure_count >= 1
  /\ queue # <<>>
  /\ obstacles # <<>>

\* C6: a call of Plan ends in exactly one of two outcomes: a recorded
\* trajectory with the status OK, or the typed failure with its reason and the
\* three rejection counters of the cycle.
C6_ExactlyOneOutcome ==
  pc \in {"returned", "crashed"} =>
    LET success == status = StatusOK /\ set_trajectory_calls = 1
        failure == /\ status.code = "PLANNING_ERROR"
                   /\ status.msg # ""
                   /\ log.counters = LoggedCounters
    IN  (success \/ failure) /\ ~(success /\ failure)

\* C7: with an empty longitudinal or lateral bundle Plan ends the cycle
\* before the selection loop, with a failure that is not the failure of the
\* cycle whose every pair was rejected.
C7_ConfigurationFailure ==
  (pc = "returned" /\ (lon_bundle = <<>> \/ lat_bundle = <<>>)) =>
    /\ status.code \notin {"OK", "NONE"}
    /\ status # StatusPlanningError

EvaluatorCostOf(p) ==
  LET k == CHOOSE k \in 1..Len(ranked) :
             ranked[k].lon = p.lon /\ ranked[k].lat = p.lat
  IN  ranked[k].cost

\* C9: the cost recorded by SetCost is the PriorityCost plus the evaluator's
\* cost of the very pair that was selected.
C9_SelectedCost ==
  set_trajectory_calls = 1 =>
    /\ selected.cost = EvaluatorCostOf(selected)
    /\ reference_line_info.cost
         = reference_line_info.priority_cost + EvaluatorCostOf(selected)

C9_Witness ==
  /\ status = StatusOK
  /\ reference_line_info.priority_cost # 0
  /\ Len(popped) >= 2
  /\ queue # <<>>
  /\ Head(queue).cost # selected.cost
  /\ popped[1].cost # selected.cost

\* C10, as claimed: on success the result holder has the selected trajectory,
\* its total cost and its cost components.
C10_HandsBreakdown ==
  status = StatusOK =>
    /\ reference_line_info.trajectory = TrajectoryOf(selected)
    /\ reference_line_info.cost
         = reference_line_info.priority_cost + selected.cost
    /\ reference_line_info.debug = selected.components

\* C10, amended: on success the result holder has the selected trajectory,
\* the total cost (PriorityCost plus the pair's cost) and the drivable flag;
\* the cost components of the selected pair are written to the log only.
C10_HandsTrajectoryAndCost ==
  status = StatusOK =>
    /\ reference_line_info.trajectory = TrajectoryOf(selected)
    /\ reference_line_info.cost
         = reference_line_info.priority_cost + selected.cost
    /\ reference_line_info.drivable
    /\ reference_line_info.debug = <<>>
    /\ log.components = selected.components

C10_Witness ==
  /\ status = StatusOK
  /\ reference_line_info.priority_cost # 0
  /\ selected.cost # 0
  /\ Len(reference_line_info.trajectory) >= HorizonPoints
  /\ log.components = selected.components

\* C11: what the selecting iteration records and what Plan then returns is a
\* function of the state before the iteration that reads neither the
\* localization adapter nor enable_auto_tuning: whichever branch of the auto
\* tuning ran, the holder gets the trajectory of the top pair, PriorityCost
\* plus its cost and drivable = true, the evaluator keeps exactly the pairs
\* below the top one, and the call returns OK with the holder as recorded.
C11_AutoTuningNoEffect ==
  [][ /\ (pc = "loop" /\ num_lattice_traj' = 1) =>
          /\ reference_line_info' =
               [reference_line_info EXCEPT
                  !.trajectory = TrajectoryOf(Head(queue)),
                  !.cost = reference_line_info.priority_cost + Head(queue).cost,
                  !.drivable = TRUE]
          /\ queue' = Tail(queue)
          /\ selected' = Head(queue)
      /\ (pc = "after_loop" /\ num_lattice_traj = 1 /\ pc' = "returned") =>
          /\ status' = StatusOK
          /\ reference_line_info' = reference_line_info
          /\ queue' = queue
    ]_vars

\* a call returned OK after the scoring call ran and the mapping failed, with
\* pairs left in the evaluator
C11_Witness ==
  /\ status = StatusOK
  /\ tuning.scored
  /\ ~tuning.tuning_success
  /\ queue # <<>>
  /\ reference_line_info.drivable

FilterOrder ==
  <<"IsValidTrajectoryPair", "CombineTrajectory", "IsValidTrajectory",
    "InCollision">>

\* C12: the calls an iteration makes on its pair are an initial part of
\* IsValidTrajectoryPair, CombineTrajectory, IsValidTrajectory, InCollision,
\* in this order; every call but the last one passed, so CombineTrajectory
\* follows a passed IsValidTrajectoryPair and InCollision a passed
\* IsValidTrajectory; an iteration that rejected its pair stopped at the
\* check that failed.
C12_FilterOrder ==
  /\ Len(calls) <= Len(FilterOrder)
  /\ \A k \in 1..Len(calls) : calls[k].f = FilterOrder[k]
  /\ \A k \in 1..(Len(calls) - 1) : calls[k].passed
  /\ popped # <<>> => calls # <<>>
  /\ (popped # <<>> /\ num_lattice_traj = 0) => ~calls[Len(calls)].passed
  /\ num_lattice_traj = 1 =>
        Len(calls) = Len(FilterOrder) /\ calls[Len(calls)].passed

\* an iteration that stopped at IsValidTrajectory, after one that stopped at
\* IsValidTrajectoryPair
C12_Witness ==
  /\ Len(calls) = 3
  /\ ~calls[3].passed
  /\ constraint_failure_count >= 1
  /\ combined_constraint_failure_count >= 1

\* C13: after every step the three rejection counters and num_lattice_traj
\* add up to the number of pairs popped; an iteration that rejects its pair
\* adds one to exactly one counter, the one of the check that failed (the
\* last check it called), leaves the other two alone and stays in the loop;
\* the pair an iteration takes is the top of the evaluator whatever the
\* counters are; and a call that fails with both constraint counters at 0 on
\* a non-empty cross-product counted every pair as a collision.
C13_RejectionCounters ==
  [][ /\ Rejections' + num_lattice_traj' = Len(popped')
      /\ (pc = "loop" /\ popped' # popped) =>
            popped' = Append(popped, IterationRead(queue))
      /\ (pc = "loop" /\ popped' # popped /\ num_lattice_traj' = 0) =>
            /\ pc' = "loop"
            /\ Rejections' = Rejections + 1
            /\ constraint_failure_count' >= constraint_failure_count
            /\ combined_constraint_failure_count'
                  >= combined_constraint_failure_count
            /\ collision_failure_count' >= collision_failure_count
            /\ (constraint_failure_count' > constraint_failure_count)
                  <=> (calls'[Len(calls')].f = "IsValidTrajectoryPair")
            /\ (combined_constraint_failure_count'
                   > combined_constraint_failure_count)
                  <=> (calls'[Len(calls')].f = "IsValidTrajectory")
            /\ (collision_failure_count' > collision_failure_count)
                  <=> (calls'[Len(calls')].f = "InCollision")
      /\ (/\ status' = StatusPlanningError
          /\ ranked' # <<>>
          /\ constraint_failure_count' = 0
          /\ combined_constraint_failure_count' = 0) =>
            /\ collision_failure_count' = Len(ranked')
            /\ collision_failure_count' > 0
            /\ num_lattice_traj' = 0
    ]_vars

\* every pair of a cross-product of at least two pairs passed both constraint
\* checks and was in collision, and Plan failed
C13_Witness ==
  /\ status = StatusPlanningError
  /\ Len(ranked) >= 2
  /\ collision_failure_count = Len(ranked)
  /\ constraint_failure_count = 0
  /\ combined_constraint_failure_count = 0

\* C14: a call of Plan ends by returning (it never stops anywhere else); no
\* pair is popped twice and no more pairs are popped than the cross-product
\* has; and the stepping loop of CombineTrajectory makes at most
\* planned_trajectory_time / trajectory_time_resolution steps, so no combined
\* trajectory of a pair has more points than that.
C14_BoundedSearch ==
  /\ pc # "crashed"
  /\ Len(popped) <= Len(lon_bundle) * Len(lat_bundle)
  /\ \A i, j \in 1..Len(popped) :
        i # j => PairIds(popped)[i] # PairIds(popped)[j]
  /\ \A k \in 1..Len(popped) : Len(TrajectoryOf(popped[k])) <= HorizonPoints

\* the time of the k-th pass of the stepping loop
StepTime(k) == (k - 1) * trajectory_time_resolution

\* C15: the point appended at each step has the lateral offset of the lateral
\* curve at s - s0, s being the longitudinal position at that step and s0 the
\* longitudinal position at parameter 0; the first point has the offset at
\* parameter 0.
C15_LateralParameter ==
  LET lat == lat_bundle[Len(lat_bundle)]
      s0  == CombineS(0)
  IN  /\ \A k \in 1..Len(combined_trajectory_points) :
            combined_trajectory_points[k].d
              = LatEvaluate(lat, 0, CombineS(StepTime(k)) - s0)
      /\ combined_trajectory_points # <<>> =>
            combined_trajectory_points[1].d = LatEvaluate(lat, 0, 0)

\* a curve that starts at s0 # 0 and moves forward: the offset of the second
\* point is not the one at s, and the offset of the third point is not the
\* one at the advance since the step before
C15_Witness ==
  LET lat == lat_bundle[Len(lat_bundle)]
      pts == combined_trajectory_points
  IN  /\ pc = "combine_done"
      /\ CombineS(0) > 0
      /\ Len(pts) >= 3
      /\ CombineS(StepTime(3)) > CombineS(StepTime(2))
      /\ CombineS(StepTime(2)) > CombineS(0)
      /\ pts[2].d # LatEvaluate(lat, 0, CombineS(StepTime(2)))
      /\ pts[3].d # LatEvaluate(lat, 0, CombineS(StepTime(3)) - CombineS(StepTime(2)))
      /\ pts[3].d # pts[1].d

\* C16: every point appended was sampled at a position s that is not beyond
\* the end of the reference line, the points are the samples of the first
\* steps in order, and when CombineTrajectory has returned it stopped either
\* because the guard of the loop failed or at the first step whose s is
\* beyond the end; what it returns is what Plan's CombineTrajectory gives.
C16_StopsAtReferenceEnd ==
  LET pts == combined_trajectory_points
      n   == Len(combined_trajectory_points)
  IN  /\ combine_t_param = StepTime(n + 1)
      /\ \A k \in 1..n :
            /\ CombineS(StepTime(k)) <= RefBackS(reference_line)
            /\ pts[k] = TrajectoryPointAt(reference_line,
                                          lon_bundle[Len(lon_bundle)],
                                          lat_bundle[Len(lat_bundle)],
                                          planning_init_point.relative_time,
                                          StepTime(k))
      /\ pc = "combine_done" =>
            /\ \/ ~LoopGuard(StepTime(n + 1))
               \/ CombineS(StepTime(n + 1)) > RefBackS(reference_line)
            /\ pts = CombineTrajectory(reference_line,
                                       lon_bundle[Len(lon_bundle)],
                                       lat_bundle[Len(lat_bundle)],
                                       planning_init_point.relative_time)

\* the loop broke after at least one point, and at a later step of the
\* horizon s is on the line again
C16_Witness ==
  /\ pc = "combine_done"
  /\ combined_trajectory_points # <<>>
  /\ LoopGuard(combine_t_param)
  /\ CombineS(combine_t_param) > RefBackS(reference_line)
  /\ \E k \in 1..HorizonPoints :
        /\ StepTime(k) > combine_t_param
        /\ CombineS(StepTime(k)) <= RefBackS(reference_line)

\* pair p comes before pair q for the evaluator: a lower cost, or the same
\* cost and generated earlier
Better(p, q) ==
  \/ EvaluatorCostOf(p) < EvaluatorCostOf(q)
  \/ EvaluatorCostOf(p) = EvaluatorCostOf(q) /\ GenIndex(p) < GenIndex(q)

\* C17: when a pair is selected, every pair of the cross-product with a lower
\* cost, or with the same cost and generated earlier, was popped before it
\* and rejected by a filter; so no acceptable pair is better than the
\* selected one.
C17_MinimumCostSelected ==
  selected # NoPair =>
    /\ <<selected.lon, selected.lat>> = PairIds(popped)[Len(popped)]
    /\ Rejections = Len(popped) - 1
    /\ \A k \in 1..Len(ranked) :
          Better(ranked[k], selected) =>
            \E i \in 1..(Len(popped) - 1) :
               PairIds(popped)[i] = <<ranked[k].lon, ranked[k].lat>>
    /\ \A i \in 1..(Len(popped) - 1) : Better(popped[i], selected)

\* a pair was selected after a pair of lower cost and a pair of the same cost
\* generated earlier were rejected
C17_Witness ==
  /\ status = StatusOK
  /\ \E i \in 1..(Len(popped) - 1) : popped[i].cost < selected.cost
  /\ \E i \in 1..(Len(popped) - 1) :
        /\ popped[i].cost = selected.cost
        /\ GenIndex(popped[i]) < GenIndex(selected)

\* C18: whatever the variant of the selected pair's longitudinal curve, Plan
\* reads nothing through a null lattice_traj_ptr, and the iteration that
\* selected a pair gets to the break.
C18_NoNullRead ==
  selected # NoPair =>
    /\ ~ub.null_deref
    /\ pc \in {"after_loop", "returned"} \/ ub.out_of_range

\* C19: every index read from the points of the selected trajectory is
\* smaller than their number.
C19_IndexesInRange ==
  selected # NoPair =>
    ~(ub.out_of_range /\ Len(reference_line_info.trajectory) < NumDebugPoints)

\* C20: inside a call the holder changes only in an iteration whose pair
\* passed IsValidTrajectoryPair, IsValidTrajectory and InCollision, or in the
\* return of OK; a call that returns the failure recorded nothing, and its
\* return leaves the holder as the call received it; the success counter
\* goes up, by one, exactly in the step that returns OK, and never exceeds
\* num_planning_cycles.
C20_FailureLeavesHolder ==
  [][ /\ (pc = "loop" /\ reference_line_info' # reference_line_info) =>
            /\ num_lattice_traj' = 1
            /\ Len(calls') = Len(FilterOrder)
            /\ \A k \in 1..Len(calls') : calls'[k].passed
      /\ (pc \in {"loop", "after_loop"} /\ status' = StatusPlanningError) =>
            /\ reference_line_info' = reference_line_info
            /\ set_trajectory_calls' = 0
            /\ reference_line_info'.trajectory = <<>>
            /\ reference_line_info'.cost = 0
            /\ ~reference_line_info'.drivable
      /\ (num_planning_succeeded_cycles' # num_planning_succeeded_cycles) <=>
            (pc # "returned" /\ pc' = "returned" /\ status' = StatusOK)
      /\ num_planning_succeeded_cycles' \in
            {num_planning_succeeded_cycles, num_planning_succeeded_cycles + 1}
      /\ num_planning_succeeded_cycles' <= num_planning_cycles'
    ]_vars

\* a cycle that rejected a pair and failed, after a cycle that succeeded
C20_Witness ==
  /\ status = StatusPlanningError
  /\ num_planning_cycles = 2
  /\ num_planning_succeeded_cycles = 1
  /\ Rejections >= 1
  /\ reference_line_info.trajectory = <<>>
  /\ ~reference_line_info.drivable

=============================================================================
